---- MODULE Spec2Model ----
(***************************************************************************)
(* GreenShield backend: the account-verification state machine (signup,   *)
(* login, verify-OTP, resend-OTP), report submission with its points      *)
(* award, and reading, updating and deleting a report, as implemented by  *)
(* the auth and reports controllers.                                      *)
(*                                                                         *)
(* Every request handler is an async function.  The code between two      *)
(* awaits runs without interruption (one JavaScript thread); an awaited   *)
(* store call is where another request can interleave.  Each action below *)
(* is one awaited store or collaborator call together with the            *)
(* synchronous code of the handler that is adjacent to it.                *)
(***************************************************************************)
EXTENDS Integers, Sequences, FiniteSets, TLC

(* ------------------------------ bounds --------------------------------- *)

\* number of clock advances in a behaviour
MaxTicks == 2
\* number of requests the server receives in a behaviour
MaxRequests == 2

\* concurrent request slots of the server
Procs == {1, 2}

(* --------------------------- input domains ----------------------------- *)

\* normalised e-mail addresses that requests carry
Emails == {"a@x", "b@x"}

\* passwords: signup always registers GoodPassword, login may carry either
GoodPassword == "Passw0rd"
BadPassword == "Wr0ngPass"
Passwords == {GoodPassword, BadPassword}

\* Math.random() returns k / RandDen for some k in 0 .. RandDen-1
RandDen == 1000
RandSamples == {0, 999}

\* clock advances, in milliseconds
TickSteps == {10 * 60 * 1000}

(* ------------------------------ helpers -------------------------------- *)

\* the null of a nullable string column / of a nullable DateTime column
NullOtp == <<>>
NullDate == -1

\* Number.prototype.toString() of a non-negative integer: its decimal digits
RECURSIVE toString(_)
toString(n) == IF n < 10 THEN <<n>> ELSE Append(toString(n \div 10), n % 10)

\* the value of a string of decimal digits
RECURSIVE digitsValue(_)
digitsValue(s) ==
  IF Len(s) = 0 THEN 0
  ELSE 10 * digitsValue(SubSeq(s, 1, Len(s) - 1)) + s[Len(s)]

\* mutant: Math.floor(Math.random() * 1000000).toString()
generateOTPFromZero(k) == toString((k * 1000000) \div RandDen)

\* Math.floor(100000 + Math.random() * 900000).toString(), Math.random() = k/RandDen
generateOTP(k) == toString(100000 + ((k * 900000) \div RandDen))

\* 10 * 60 * 1000 milliseconds
OtpTtlMs == 10 * 60 * 1000

\* bcrypt.hash(password, 12): a salted digest; bcrypt.compare checks the
\* plaintext against the digest
bcryptHash(password) == [rounds |-> 12, digestOf |-> password]
bcryptCompare(password, digest) == digest = bcryptHash(password)

\* codes that pass otpValidation (6 numeric characters) and that requests carry
RequestCodes == {generateOTP(k) : k \in RandSamples} \cup {<<0, 0, 0, 0, 0, 0>>}

\* what signupValidation lets through as the password of a new account
SignupPasswords == {GoodPassword}

\* request bodies of POST /api/reports: one that passes reportValidation and
\* bodies that break one rule each (description is given by its trimmed length)
ValidReport ==
  [category |-> "pollution", description |-> 10, hasLocation |-> TRUE,
   latitude |-> 12, longitude |-> 78, address |-> "creek", photo |-> "base64"]
ReportBodies ==
  { ValidReport,
    [ValidReport EXCEPT !.latitude = 95],
    [ValidReport EXCEPT !.longitude = -181],
    [ValidReport EXCEPT !.category = "noise"],
    [ValidReport EXCEPT !.category = ""],
    [ValidReport EXCEPT !.description = 9],
    [ValidReport EXCEPT !.description = 1001],
    [ValidReport EXCEPT !.photo = ""] }

\* bodies the controller submitReport can be handed: those, one without a
\* description and one without a location
UnscreenedBodies ==
  ReportBodies \cup
    { [ValidReport EXCEPT !.description = 0],
      [ValidReport EXCEPT !.hasLocation = FALSE] }

(* ------------------------------- state --------------------------------- *)

VARIABLES
  users,         \* table User: e-mail -> row, for the e-mails that have a row
  reports,       \* table Report: set of rows
  nextReportId,  \* autoincrement counter of Report.id
  persisted,     \* history: per user, how many report rows Submit has created
  awards,        \* history: per user, how many submissions were answered 201
  verifications, \* history: per e-mail, how many verify-OTP requests succeeded
  outbox,        \* history: the last mail the transporter accepted
  issued,        \* history: user ids for which jwt.sign has produced a token
  now,           \* the clock (Date.now()), in milliseconds
  ticks,         \* how many times the clock has advanced
  served,        \* how many requests have arrived
  pc,            \* per request slot: where its handler is suspended
  local,         \* per request slot: the handler's local variables
  resp           \* the last response the server has sent

vars == <<users, reports, nextReportId, persisted, awards, verifications,
          outbox, issued, now, ticks, served, pc, local, resp>>

store == <<users, reports, nextReportId, persisted, awards>>

\* column defaults of model User
UserDefaults == [isEmailVerified |-> FALSE, points |-> 0, role |-> "USER"]

\* the id column of the row with a given e-mail (ids and e-mails are both unique)
UserId(email) == email

\* the name an account was registered under (req.body.name of its signup)
UserName(email) == IF email = "a@x" THEN "Asha" ELSE "Bala"

NoLocal == [email |-> "", password |-> "", otp |-> NullOtp]
NoMail == [to |-> "", otp |-> NullOtp]
NoResp ==
  [op |-> "", email |-> "", password |-> "", otp |-> NullOtp, status |-> 0,
   body |-> [message |-> ""]]

(* ------------------------- responses and steps ------------------------- *)

\* a request: the route and the fields of its body that the handlers read
Request(op, email, password, otp) ==
  [op |-> op, email |-> email, password |-> password, otp |-> otp]

\* a response: the request it answers, the HTTP status, the JSON body
Response(req, status, body) ==
  [op |-> req.op, email |-> req.email, password |-> req.password,
   otp |-> req.otp, status |-> status, body |-> body]

\* mutant: a failure body carries the message of the caught error
FailureWithErrorMessage(req, status, message) ==
  Response(req, status,
    [success |-> FALSE, message |-> message,
     error |-> "Can't reach database server at db:5432"])

\* a failure body: success false and a message
Failure(req, status, message) ==
  Response(req, status, [success |-> FALSE, message |-> message])

\* mutant: the returned user record is the whole row, secrets included
SanitizedUserWholeRow(email, verified) ==
  [id |-> UserId(email), email |-> email, isEmailVerified |-> verified,
   password |-> "", otp |-> NullOtp, otpExpiry |-> NullDate]

\* the select { id, name, mobile, email, isEmailVerified, createdAt } of a row
SanitizedUser(email, verified) ==
  [id |-> UserId(email), email |-> email, isEmailVerified |-> verified]

\* res.status(..).json(..): the handler of slot p is finished
Respond(p, r) ==
  /\ resp' = r
  /\ pc' = [pc EXCEPT ![p] = "idle"]
  /\ local' = [local EXCEPT ![p] = NoLocal]

\* the handler of slot p suspends at an await
Suspend(p, at, l) ==
  /\ resp' = resp
  /\ pc' = [pc EXCEPT ![p] = at]
  /\ local' = [local EXCEPT ![p] = l]

\* a request arrives at the idle slot p
Arrive(p) ==
  /\ pc[p] = "idle"
  /\ served < MaxRequests
  /\ served' = served + 1

\* sendOTPEmail(email, otp, name): true when the transporter accepted the
\* mail, false when it threw
sendOTPEmail(email, otp, delivered) ==
  outbox' = IF delivered THEN [to |-> email, otp |-> otp] ELSE outbox

\* mutant: the code lives 5 minutes
otpExpiryAtFiveMinutes(t) == t + 5 * 60 * 1000

\* new Date(Date.now() + 10 * 60 * 1000)
otpExpiryAt(t) == t + OtpTtlMs

(* ------------------------------- signup -------------------------------- *)

\* the row prisma.user.create inserts for signup
NewUser(email, password, otp, otpExpiry) ==
  [id |-> UserId(email), name |-> UserName(email),
   password |-> bcryptHash(password), otp |-> otp, otpExpiry |-> otpExpiry,
   isEmailVerified |-> UserDefaults.isEmailVerified,
   points |-> UserDefaults.points, role |-> UserDefaults.role]

\* mutant: the 201 of signup carries a session token
signupCreatedWithToken(req, otp, emailSent) ==
  Response(req, 201,
    [success |-> TRUE,
     message |-> "User registered successfully. Please check your email for verification code.",
     user |-> SanitizedUser(req.email, UserDefaults.isEmailVerified),
     emailSent |-> emailSent, token |-> UserId(req.email)])

\* the two 201 bodies of signup
signupCreated(req, otp, emailSent) ==
  LET user == SanitizedUser(req.email, UserDefaults.isEmailVerified) IN
  IF ~emailSent
    THEN Response(req, 201,
           [success |-> TRUE,
            message |-> "User registered successfully! For development, use OTP: ",
            user |-> user, emailSent |-> FALSE, developmentOTP |-> otp])
    ELSE Response(req, 201,
           [success |-> TRUE,
            message |-> "User registered successfully. Please check your email for verification code.",
            user |-> user, emailSent |-> TRUE])

\* mutant: the duplicate check never fires
existingUserNever(table, email) == FALSE

\* if (existingUser) after findUnique({ where: { email } })
existingUser(table, email) == email \in DOMAIN table

\* POST /signup arrives; findUnique({ email }) and the duplicate check
signupFind(p, email, password, ok) ==
  /\ Arrive(p)
  /\ LET req == Request("signup", email, password, NullOtp) IN
       IF ~ok
         THEN Respond(p, Failure(req, 500, "Internal server error"))
         ELSE IF existingUser(users, email)
           THEN Respond(p, Failure(req, 400, "User with this email already exists"))
           ELSE Suspend(p, "signup_create",
                        [NoLocal EXCEPT !.email = email, !.password = password])
  /\ UNCHANGED <<store, verifications, outbox, issued, now, ticks>>

\* bcrypt.hash, generateOTP(), Date.now() + 10 min, prisma.user.create (the
\* unique index on email makes it throw when a row with the e-mail exists),
\* sendOTPEmail, the 201 response
signupCreate(p, k, ok, delivered) ==
  /\ pc[p] = "signup_create"
  /\ LET email == local[p].email
         req == Request("signup", email, local[p].password, NullOtp)
         otp == generateOTP(k)
         otpExpiry == otpExpiryAt(now)
     IN IF ok /\ email \notin DOMAIN users
          THEN /\ users' = users @@
                     (email :> NewUser(email, local[p].password, otp, otpExpiry))
               /\ sendOTPEmail(email, otp, delivered)
               /\ Respond(p, signupCreated(req, otp, delivered))
          ELSE /\ users' = users
               /\ outbox' = outbox
               /\ Respond(p, Failure(req, 500, "Internal server error"))
  /\ UNCHANGED <<reports, nextReportId, persisted, awards, verifications, issued,
                 now, ticks, served>>

(* -------------------------------- login -------------------------------- *)

\* the 401 of login when findUnique returned no row
loginNoUser(req) == Failure(req, 401, "Invalid email or password")

\* mutant: the wrong-password answer says which credential was wrong
loginBadPasswordTold(req) == Failure(req, 401, "Invalid password")

\* the 401 of login when bcrypt.compare returned false
loginBadPassword(req) == Failure(req, 401, "Invalid email or password")

\* mutant: login refuses a user whose e-mail is not verified
loginRequiresVerified(p, email, password, ok) ==
  /\ Arrive(p)
  /\ LET req == Request("login", email, password, NullOtp) IN
       IF ~ok
         THEN /\ Respond(p, Failure(req, 500, "Internal server error"))
              /\ issued' = issued
         ELSE IF email \notin DOMAIN users
           THEN /\ Respond(p, Failure(req, 401, "Invalid email or password"))
                /\ issued' = issued
           ELSE IF ~bcryptCompare(password, users[email].password)
             THEN /\ Respond(p, Failure(req, 401, "Invalid email or password"))
                  /\ issued' = issued
             ELSE IF ~users[email].isEmailVerified
               THEN /\ Respond(p, Failure(req, 403, "Email is not verified"))
                    /\ issued' = issued
               ELSE /\ issued' = issued \cup {users[email].id}
                    /\ Respond(p, Response(req, 200,
                         [success |-> TRUE, message |-> "Login successful",
                          user |-> SanitizedUser(email, users[email].isEmailVerified),
                          token |-> users[email].id]))
  /\ UNCHANGED <<store, verifications, outbox, now, ticks>>

\* POST /login: findUnique, bcrypt.compare, jwt.sign, 200
login(p, email, password, ok) ==
  /\ Arrive(p)
  /\ LET req == Request("login", email, password, NullOtp) IN
       IF ~ok
         THEN /\ Respond(p, Failure(req, 500, "Internal server error"))
              /\ issued' = issued
         ELSE IF email \notin DOMAIN users
           THEN /\ Respond(p, loginNoUser(req))
                /\ issued' = issued
           ELSE IF ~bcryptCompare(password, users[email].password)
             THEN /\ Respond(p, loginBadPassword(req))
                  /\ issued' = issued
             ELSE /\ issued' = issued \cup {users[email].id}
                  /\ Respond(p, Response(req, 200,
                       [success |-> TRUE, message |-> "Login successful",
                        user |-> SanitizedUser(email, users[email].isEmailVerified),
                        token |-> users[email].id]))
  /\ UNCHANGED <<store, verifications, outbox, now, ticks>>

(* ------------------------------ verifyOTP ------------------------------ *)

\* mutant: a code is accepted for 10 minutes past its expiry
otpExpiredLate(t, user) == t > user.otpExpiry + OtpTtlMs

\* new Date() > user.otpExpiry
otpExpired(t, user) == t > user.otpExpiry

\* mutant: the update leaves otpExpiry in place
verifiedDataKeepsExpiry(user) ==
  [user EXCEPT !.isEmailVerified = TRUE, !.otp = NullOtp]

\* the data of the update that verifies a row
verifiedData(user) ==
  [user EXCEPT !.isEmailVerified = TRUE, !.otp = NullOtp, !.otpExpiry = NullDate]

\* mutant: the code is compared before the expiry is tested
verifyChecksCodeFirst(table, t, req) ==
  IF req.email \notin DOMAIN table
    THEN Failure(req, 404, "User not found")
  ELSE IF table[req.email].isEmailVerified
    THEN Failure(req, 400, "Email is already verified")
  ELSE IF table[req.email].otp = NullOtp \/ table[req.email].otpExpiry = NullDate
    THEN Failure(req, 400, "No OTP found. Please request a new one.")
  ELSE IF table[req.email].otp # req.otp
    THEN Failure(req, 400, "Invalid OTP")
  ELSE IF otpExpired(t, table[req.email])
    THEN Failure(req, 400, "OTP has expired. Please request a new one.")
  ELSE Response(req, 0, [message |-> "pass"])

\* the outcome of the checks verifyOTP makes on what findUnique returned:
\* the failure to send, or "pass"
verifyChecks(table, t, req) ==
  IF req.email \notin DOMAIN table
    THEN Failure(req, 404, "User not found")
  ELSE IF table[req.email].isEmailVerified
    THEN Failure(req, 400, "Email is already verified")
  ELSE IF table[req.email].otp = NullOtp \/ table[req.email].otpExpiry = NullDate
    THEN Failure(req, 400, "No OTP found. Please request a new one.")
  ELSE IF otpExpired(t, table[req.email])
    THEN Failure(req, 400, "OTP has expired. Please request a new one.")
  ELSE IF table[req.email].otp # req.otp
    THEN Failure(req, 400, "Invalid OTP")
  ELSE Response(req, 0, [message |-> "pass"])

\* mutant: a wrong code uses up the stored code
verifyFindBurnsCode(p, email, otp, ok) ==
  /\ Arrive(p)
  /\ LET req == Request("verifyOTP", email, "", otp) IN
       IF ~ok
         THEN Respond(p, Failure(req, 500, "Internal server error")) /\ users' = users
         ELSE IF verifyChecks(users, now, req).status # 0
           THEN /\ Respond(p, verifyChecks(users, now, req))
                /\ users' = IF verifyChecks(users, now, req).body.message = "Invalid OTP"
                              THEN [users EXCEPT ![email].otp = NullOtp,
                                                 ![email].otpExpiry = NullDate]
                              ELSE users
           ELSE /\ Suspend(p, "verify_update",
                           [NoLocal EXCEPT !.email = email, !.otp = otp])
                /\ users' = users
  /\ UNCHANGED <<reports, nextReportId, persisted, awards, verifications, outbox,
                 issued, now, ticks>>

\* POST /verify-otp arrives; findUnique({ email }) and the checks made on
\* the row it returned, at the time it returned
verifyFind(p, email, otp, ok) ==
  /\ Arrive(p)
  /\ LET req == Request("verifyOTP", email, "", otp) IN
       IF ~ok
         THEN Respond(p, Failure(req, 500, "Internal server error"))
         ELSE IF verifyChecks(users, now, req).status # 0
           THEN Respond(p, verifyChecks(users, now, req))
           ELSE Suspend(p, "verify_update",
                        [NoLocal EXCEPT !.email = email, !.otp = otp])
  /\ UNCHANGED <<store, verifications, outbox, issued, now, ticks>>

\* prisma.user.update({ isEmailVerified: true, otp: null, otpExpiry: null })
\* on the row with the id that was read, jwt.sign, 200
verifyUpdate(p, ok) ==
  /\ pc[p] = "verify_update"
  /\ LET email == local[p].email
         req == Request("verifyOTP", email, "", local[p].otp)
     IN
       IF ok
         THEN /\ users' = [users EXCEPT ![email] = verifiedData(@)]
              /\ issued' = issued \cup {users[email].id}
              /\ verifications' = [verifications EXCEPT ![email] = @ + 1]
              /\ Respond(p, Response(req, 200,
                   [success |-> TRUE, message |-> "Email verified successfully",
                    user |-> SanitizedUser(email, TRUE),
                    token |-> users[email].id]))
         ELSE /\ users' = users
              /\ issued' = issued
              /\ verifications' = verifications
              /\ Respond(p, Failure(req, 500, "Internal server error"))
  /\ UNCHANGED <<reports, nextReportId, persisted, awards, outbox, now, ticks,
                 served>>

(* ------------------------------ resendOTP ------------------------------ *)

\* mutant: the update that stores a new code resets isEmailVerified
resendDataUnverifies(user, otp, otpExpiry) ==
  [user EXCEPT !.otp = otp, !.otpExpiry = otpExpiry, !.isEmailVerified = FALSE]

\* mutant: the update stores the new code under the old expiry
resendDataKeepsExpiry(user, otp, otpExpiry) ==
  [user EXCEPT !.otp = otp]

\* the data of the update that stores a new code
resendData(user, otp, otpExpiry) ==
  [user EXCEPT !.otp = otp, !.otpExpiry = otpExpiry]

\* the two 200 bodies of resendOTP
resendDone(req, otp, emailSent) ==
  IF ~emailSent
    THEN Response(req, 200,
           [success |-> TRUE,
            message |-> "New verification code generated! For development, use OTP: ",
            developmentOTP |-> otp])
    ELSE Response(req, 200,
           [success |-> TRUE,
            message |-> "New verification code sent to your email"])

\* mutant: resendOTP without the isEmailVerified check
resendFindSkipsVerified(p, email, ok) ==
  /\ Arrive(p)
  /\ LET req == Request("resendOTP", email, "", NullOtp) IN
       IF ~ok
         THEN Respond(p, Failure(req, 500, "Internal server error"))
         ELSE IF email \notin DOMAIN users
           THEN Respond(p, Failure(req, 404, "User not found"))
           ELSE Suspend(p, "resend_update", [NoLocal EXCEPT !.email = email])
  /\ UNCHANGED <<store, verifications, outbox, issued, now, ticks>>

\* POST /resend-otp arrives; findUnique({ email }) and the two checks
resendFind(p, email, ok) ==
  /\ Arrive(p)
  /\ LET req == Request("resendOTP", email, "", NullOtp) IN
       IF ~ok
         THEN Respond(p, Failure(req, 500, "Internal server error"))
         ELSE IF email \notin DOMAIN users
           THEN Respond(p, Failure(req, 404, "User not found"))
           ELSE IF users[email].isEmailVerified
             THEN Respond(p, Failure(req, 400, "Email is already verified"))
             ELSE Suspend(p, "resend_update", [NoLocal EXCEPT !.email = email])
  /\ UNCHANGED <<store, verifications, outbox, issued, now, ticks>>

\* mutant: the mail goes out before the update, whether the update succeeds
\* or throws
resendUpdateMailsFirst(p, k, ok, delivered) ==
  /\ pc[p] = "resend_update"
  /\ LET email == local[p].email
         req == Request("resendOTP", email, "", NullOtp)
         otp == generateOTP(k)
         otpExpiry == otpExpiryAt(now)
     IN /\ sendOTPEmail(email, otp, delivered)
        /\ IF ok
             THEN /\ users' = [users EXCEPT ![email] = resendData(@, otp, otpExpiry)]
                  /\ Respond(p, resendDone(req, otp, delivered))
             ELSE /\ users' = users
                  /\ Respond(p, Failure(req, 500, "Internal server error"))
  /\ UNCHANGED <<reports, nextReportId, persisted, awards, verifications, issued,
                 now, ticks, served>>

\* generateOTP(), Date.now() + 10 min, prisma.user.update({ otp, otpExpiry })
\* on the row with the id that was read, sendOTPEmail, the 200 response
resendUpdate(p, k, ok, delivered) ==
  /\ pc[p] = "resend_update"
  /\ LET email == local[p].email
         req == Request("resendOTP", email, "", NullOtp)
         otp == generateOTP(k)
         otpExpiry == otpExpiryAt(now)
     IN IF ok
          THEN /\ users' = [users EXCEPT ![email] = resendData(@, otp, otpExpiry)]
               /\ sendOTPEmail(email, otp, delivered)
               /\ Respond(p, resendDone(req, otp, delivered))
          ELSE /\ users' = users
               /\ outbox' = outbox
               /\ Respond(p, Failure(req, 500, "Internal server error"))
  /\ UNCHANGED <<reports, nextReportId, persisted, awards, verifications, issued,
                 now, ticks, served>>

(* ----------------------------- submitReport ---------------------------- *)

\* the categories reportValidation accepts
Categories == {"illegal-cutting", "waste-dumping", "pollution", "other"}

\* mutant: the latitude rule is missing
reportValidationNoLatitude(body) ==
  {f \in {"category", "description", "location", "location.longitude",
          "location.address", "photo"} :
     \/ f = "category" /\ (body.category = "" \/ body.category \notin Categories)
     \/ f = "description" /\ (body.description < 10 \/ body.description > 1000)
     \/ f = "location" /\ ~body.hasLocation
     \/ f = "location.longitude"
          /\ (~body.hasLocation \/ body.longitude < -180 \/ body.longitude > 180)
     \/ f = "location.address" /\ (~body.hasLocation \/ body.address = "")
     \/ f = "photo" /\ body.photo = ""}

\* reportValidation: the fields of a request body that break a rule
reportValidation(body) ==
  {f \in {"category", "description", "location", "location.latitude",
          "location.longitude", "location.address", "photo"} :
     \/ f = "category" /\ (body.category = "" \/ body.category \notin Categories)
     \/ f = "description" /\ (body.description < 10 \/ body.description > 1000)
     \/ f = "location" /\ ~body.hasLocation
     \/ f = "location.latitude"
          /\ (~body.hasLocation \/ body.latitude < -90 \/ body.latitude > 90)
     \/ f = "location.longitude"
          /\ (~body.hasLocation \/ body.longitude < -180 \/ body.longitude > 180)
     \/ f = "location.address" /\ (~body.hasLocation \/ body.address = "")
     \/ f = "photo" /\ body.photo = ""}

\* authenticateToken: the bearer token was signed by this server for user u
\* and u still has a row
AuthGate(u) ==
  /\ u \in issued
  /\ \E e \in DOMAIN users : users[e].id = u

\* fixed award of a submission
pointsToAward == 10

\* the row prisma.report.create inserts
NewReport(id, body, userId, t) ==
  [id |-> id, category |-> body.category, description |-> body.description,
   latitude |-> body.latitude, longitude |-> body.longitude,
   address |-> body.address, photo |-> body.photo,
   status |-> "PENDING", userId |-> userId, createdAt |-> t, updatedAt |-> t]

\* mutant: the update has no where clause
awardDataAllRows(table, userId) ==
  [e \in DOMAIN table |-> [table[e] EXCEPT !.points = @ + pointsToAward]]

\* mutant: the update writes the award over the stored value
awardDataOverwrite(table, userId) ==
  [e \in DOMAIN table |->
     IF table[e].id = userId
       THEN [table[e] EXCEPT !.points = pointsToAward]
       ELSE table[e]]

\* mutant: the update takes the award away
awardDataDeducts(table, userId) ==
  [e \in DOMAIN table |->
     IF table[e].id = userId
       THEN [table[e] EXCEPT !.points = @ - pointsToAward]
       ELSE table[e]]

\* the data of the update that awards the points: points = points + 10 in
\* one UPDATE statement, on the row of the submitter only
awardData(table, userId) ==
  [e \in DOMAIN table |->
     IF table[e].id = userId
       THEN [table[e] EXCEPT !.points = @ + pointsToAward]
       ELSE table[e]]

\* POST /api/reports with the bearer token of user u (req.user.id = u)
SubmitRequest(u) == Request("submitReport", u, "", NullOtp)

\* mutant: the controller's check does not look at the photo
missingFieldsIgnoresPhoto(body) ==
  body.category = "" \/ body.description = 0 \/ ~body.hasLocation

\* !category || !description || !location || !photo
missingFields(body) ==
  body.category = "" \/ body.description = 0 \/ ~body.hasLocation
    \/ body.photo = ""

\* the controller submitReport up to its first await: the required-field
\* check and prisma.report.create
submitReport(p, u, body, ok) ==
  IF missingFields(body)
    THEN /\ Respond(p, Failure(SubmitRequest(u), 400,
              "Missing required fields: category, description, location, and photo are required"))
         /\ UNCHANGED <<reports, nextReportId, persisted>>
  ELSE IF ~ok
    THEN /\ Respond(p, Failure(SubmitRequest(u), 500,
              "Internal server error while submitting report"))
         /\ UNCHANGED <<reports, nextReportId, persisted>>
    ELSE /\ reports' = reports \cup {NewReport(nextReportId, body, u, now)}
         /\ nextReportId' = nextReportId + 1
         /\ persisted' = [persisted EXCEPT ![u] = @ + 1]
         /\ Suspend(p, "submit_award", [NoLocal EXCEPT !.email = u])

\* POST /api/reports by an authenticated caller: handleValidationErrors,
\* then the controller
submitCreate(p, u, body, ok) ==
  /\ Arrive(p)
  /\ AuthGate(u)
  /\ IF reportValidation(body) # {}
       THEN /\ Respond(p, Response(SubmitRequest(u), 400,
                 [success |-> FALSE, message |-> "Validation failed",
                  errors |-> reportValidation(body)]))
            /\ UNCHANGED <<reports, nextReportId, persisted>>
       ELSE submitReport(p, u, body, ok)
  /\ UNCHANGED <<users, awards, verifications, outbox, issued, now, ticks>>

\* the controller submitReport called with req.user set and a body no
\* validator has screened
submitUnscreened(p, u, body, ok) ==
  /\ Arrive(p)
  /\ AuthGate(u)
  /\ submitReport(p, u, body, ok)
  /\ UNCHANGED <<users, awards, verifications, outbox, issued, now, ticks>>

\* prisma.user.update({ points: { increment: 10 } }) on the caller's row,
\* then the 201 response
submitAward(p, ok) ==
  /\ pc[p] = "submit_award"
  /\ LET u == local[p].email IN
       IF ok
         THEN /\ users' = awardData(users, u)
              /\ awards' = [awards EXCEPT ![u] = @ + 1]
              /\ Respond(p, Response(SubmitRequest(u), 201,
                   [success |-> TRUE, message |-> "Report submitted successfully",
                    pointsAwarded |-> pointsToAward]))
         ELSE /\ users' = users
              /\ awards' = awards
              /\ Respond(p, Failure(SubmitRequest(u), 500,
                   "Internal server error while submitting report"))
  /\ UNCHANGED <<reports, nextReportId, persisted, verifications, outbox,
                 issued, now, ticks, served>>

(* --------------- getReportById, updateReport, deleteReport -------------- *)

\* req.user as authenticateToken attaches it: the id of the token and the
\* role of the row it resolves to
AuthUser(u) == [id |-> u, role |-> users[u].role]

\* the ids requests carry in the path (parseInt(id))
ReportIds == {1, 2}

\* request bodies of PUT /api/reports/:id, which no validator screens: the
\* fields the handler reads, absent ones as the empty value (description is
\* given by its length)
NoPatch == [description |-> 0, category |-> "", status |-> ""]
Patches ==
  { NoPatch,
    [description |-> 0, category |-> "", status |-> "resolved"],
    [description |-> 5, category |-> "other", status |-> "resolved"] }

\* a request on one report: the route, req.user, req.params.id, req.body
ReportRequest(op, user, id, patch) ==
  [op |-> op, email |-> user.id, password |-> "", otp |-> NullOtp,
   role |-> user.role, id |-> id, patch |-> patch]

ReportResponse(req, status, body) ==
  [op |-> req.op, email |-> req.email, password |-> req.password,
   otp |-> req.otp, role |-> req.role, id |-> req.id, patch |-> req.patch,
   status |-> status, body |-> body]

ReportFailure(req, status, message) ==
  ReportResponse(req, status, [success |-> FALSE, message |-> message])

\* the handler's local variables across its second await
ReportLocal(req, data) ==
  [email |-> req.email, password |-> "", otp |-> NullOtp, role |-> req.role,
   id |-> req.id, patch |-> req.patch, data |-> data]

\* String.prototype.toUpperCase() on the status names requests carry
toUpperCase(s) ==
  CASE s = "resolved" -> "RESOLVED"
    [] s = "pending" -> "PENDING"
    [] OTHER -> s

\* prisma.report.findUnique({ where: { id } }): the row, if there is one
findReport(table, id) == {r \in table : r.id = id}

\* the include { user: { id, name, email } } of a report row
ReportWithUser(r) ==
  [report |-> r,
   user |-> [id |-> r.userId, name |-> UserName(r.userId), email |-> r.userId]]

\* mutant: no ownership or role check
canAccessAnyone(report, user) == TRUE

\* the negation of report.userId !== userId && req.user.role !== 'ADMIN'
canAccess(report, user) == ~(report.userId # user.id /\ user.role # "ADMIN")

\* mutant: the caller is tested against the owner before the row is tested
\* for existence
reportChecksAccessFirst(table, req, denied) ==
  IF /\ req.role # "ADMIN"
     /\ ~\E r \in findReport(table, req.id) : r.userId = req.email
    THEN ReportFailure(req, 403, denied)
  ELSE IF findReport(table, req.id) = {}
    THEN ReportFailure(req, 404, "Report not found")
  ELSE ReportResponse(req, 0, [message |-> "pass"])

\* the outcome of the checks the three handlers make on what findUnique
\* returned: the failure to send, or "pass"
reportChecks(table, req, denied) ==
  IF findReport(table, req.id) = {}
    THEN ReportFailure(req, 404, "Report not found")
  ELSE IF \E r \in findReport(table, req.id) :
            ~canAccess(r, [id |-> req.email, role |-> req.role])
    THEN ReportFailure(req, 403, denied)
  ELSE ReportResponse(req, 0, [message |-> "pass"])

\* GET /api/reports/:id by an authenticated caller
getReportById(p, u, id, ok) ==
  /\ Arrive(p)
  /\ AuthGate(u)
  /\ LET req == ReportRequest("getReportById", AuthUser(u), id, NoPatch)
         checked == reportChecks(reports, req,
                      "Access denied. You can only view your own reports.")
     IN IF ~ok
          THEN Respond(p, ReportFailure(req, 500,
                 "Internal server error while fetching report"))
          ELSE IF checked.status # 0
            THEN Respond(p, checked)
            ELSE Respond(p, ReportResponse(req, 200,
                   [success |-> TRUE,
                    data |-> ReportWithUser(CHOOSE r \in reports : r.id = id)]))
  /\ UNCHANGED <<store, verifications, outbox, issued, now, ticks>>

\* mutant: a status in the body is taken from any caller
updateDataAnyRole(patch, user, t) ==
  [description |-> patch.description, category |-> patch.category,
   status |-> IF patch.status # "" THEN toUpperCase(patch.status) ELSE "",
   userId |-> "", updatedAt |-> t]

\* mutant: the update hands the report to the caller
updateDataTakesOwnership(patch, user, t) ==
  [description |-> patch.description, category |-> patch.category,
   status |-> IF patch.status # "" /\ user.role = "ADMIN"
                THEN toUpperCase(patch.status) ELSE "",
   userId |-> user.id, updatedAt |-> t]

\* updateData: updatedAt always; description and category when truthy;
\* status, upper-cased, when truthy and the caller is ADMIN; no other key
\* (an absent key is the empty value)
updateData(patch, user, t) ==
  [description |-> patch.description, category |-> patch.category,
   status |-> IF patch.status # "" /\ user.role = "ADMIN"
                THEN toUpperCase(patch.status) ELSE "",
   userId |-> "", updatedAt |-> t]

\* mutant: the update leaves updatedAt as it was
updatedRowKeepsUpdatedAt(r, data) ==
  [r EXCEPT !.description = IF data.description # 0 THEN data.description ELSE @,
            !.category = IF data.category # "" THEN data.category ELSE @,
            !.status = IF data.status # "" THEN data.status ELSE @,
            !.userId = IF data.userId # "" THEN data.userId ELSE @]

\* prisma.report.update({ data }): the row with the keys of data replaced
updatedRow(r, data) ==
  [r EXCEPT !.description = IF data.description # 0 THEN data.description ELSE @,
            !.category = IF data.category # "" THEN data.category ELSE @,
            !.status = IF data.status # "" THEN data.status ELSE @,
            !.userId = IF data.userId # "" THEN data.userId ELSE @,
            !.updatedAt = data.updatedAt]

\* PUT /api/reports/:id by an authenticated caller: findUnique, the checks,
\* the construction of updateData
updateFind(p, u, id, patch, ok) ==
  /\ Arrive(p)
  /\ AuthGate(u)
  /\ LET req == ReportRequest("updateReport", AuthUser(u), id, patch)
         checked == reportChecks(reports, req,
                      "Access denied. You can only update your own reports.")
     IN IF ~ok
          THEN Respond(p, ReportFailure(req, 500,
                 "Internal server error while updating report"))
          ELSE IF checked.status # 0
            THEN Respond(p, checked)
            ELSE Suspend(p, "update_write",
                         ReportLocal(req, updateData(patch, AuthUser(u), now)))
  /\ UNCHANGED <<store, verifications, outbox, issued, now, ticks>>

\* prisma.report.update({ where: { id }, data: updateData }), which throws
\* when the row is gone, then the 200 response
updateWrite(p, ok) ==
  /\ pc[p] = "update_write"
  /\ LET l == local[p]
         req == ReportRequest("updateReport", [id |-> l.email, role |-> l.role],
                              l.id, l.patch)
     IN IF ok /\ findReport(reports, l.id) # {}
          THEN LET r == CHOOSE r \in reports : r.id = l.id IN
               /\ reports' = (reports \ {r}) \cup {updatedRow(r, l.data)}
               /\ Respond(p, ReportResponse(req, 200,
                    [success |-> TRUE, message |-> "Report updated successfully",
                     data |-> ReportWithUser(updatedRow(r, l.data))]))
          ELSE /\ reports' = reports
               /\ Respond(p, ReportFailure(req, 500,
                    "Internal server error while updating report"))
  /\ UNCHANGED <<users, nextReportId, persisted, awards, verifications, outbox,
                 issued, now, ticks, served>>

\* DELETE /api/reports/:id by an authenticated caller: findUnique, the checks
deleteFind(p, u, id, ok) ==
  /\ Arrive(p)
  /\ AuthGate(u)
  /\ LET req == ReportRequest("deleteReport", AuthUser(u), id, NoPatch)
         checked == reportChecks(reports, req,
                      "Access denied. You can only delete your own reports.")
     IN IF ~ok
          THEN Respond(p, ReportFailure(req, 500,
                 "Internal server error while deleting report"))
          ELSE IF checked.status # 0
            THEN Respond(p, checked)
            ELSE Suspend(p, "delete_write", ReportLocal(req, NoPatch))
  /\ UNCHANGED <<store, verifications, outbox, issued, now, ticks>>

\* mutant: the delete answers 200 and leaves the row in the table
deleteWriteKeepsRow(p, ok) ==
  /\ pc[p] = "delete_write"
  /\ LET l == local[p]
         req == ReportRequest("deleteReport", [id |-> l.email, role |-> l.role],
                              l.id, NoPatch)
     IN IF ok /\ findReport(reports, l.id) # {}
          THEN /\ reports' = reports
               /\ Respond(p, ReportResponse(req, 200,
                    [success |-> TRUE, message |-> "Report deleted successfully"]))
          ELSE /\ reports' = reports
               /\ Respond(p, ReportFailure(req, 500,
                    "Internal server error while deleting report"))
  /\ UNCHANGED <<users, nextReportId, persisted, awards, verifications, outbox,
                 issued, now, ticks, served>>

\* prisma.report.delete({ where: { id } }), which throws when the row is
\* gone, then the 200 response
deleteWrite(p, ok) ==
  /\ pc[p] = "delete_write"
  /\ LET l == local[p]
         req == ReportRequest("deleteReport", [id |-> l.email, role |-> l.role],
                              l.id, NoPatch)
     IN IF ok /\ findReport(reports, l.id) # {}
          THEN /\ reports' = reports \ findReport(reports, l.id)
               /\ Respond(p, ReportResponse(req, 200,
                    [success |-> TRUE, message |-> "Report deleted successfully"]))
          ELSE /\ reports' = reports
               /\ Respond(p, ReportFailure(req, 500,
                    "Internal server error while deleting report"))
  /\ UNCHANGED <<users, nextReportId, persisted, awards, verifications, outbox,
                 issued, now, ticks, served>>

(* ---------------------------- report lists ----------------------------- *)

\* the query strings list requests carry: page and limit as the integers
\* they denote, an absent status or category as the empty value
Queries ==
  { [page |-> 1, limit |-> 2, status |-> "", category |-> ""],
    [page |-> 2, limit |-> 1, status |-> "", category |-> ""],
    [page |-> 1, limit |-> 1, status |-> "pending", category |-> ""],
    [page |-> 1, limit |-> 2, status |-> "", category |-> "other"] }

\* req.user of a route without authenticateToken
NoUser == [id |-> "", role |-> ""]

\* a list request: the route, req.user and req.query
ListRequest(op, user, query) ==
  [op |-> op, email |-> user.id, password |-> "", otp |-> NullOtp,
   role |-> user.role, query |-> query]

ListResponse(req, status, body) ==
  [op |-> req.op, email |-> req.email, password |-> req.password,
   otp |-> req.otp, role |-> req.role, query |-> req.query,
   status |-> status, body |-> body]

ListFailure(req, status, message) ==
  ListResponse(req, status, [success |-> FALSE, message |-> message])

\* the handler's local variables across prisma.report.count: whereClause
\* and the rows findMany returned
ListLocal(req, where, rows) ==
  [email |-> req.email, password |-> "", otp |-> NullOtp, role |-> req.role,
   query |-> req.query, where |-> where, data |-> rows]

\* mutant: whereClause of the own list without the caller's id
userWhereAnyOwner(userId, query) ==
  [userId |-> "", category |-> "", status |-> toUpperCase(query.status)]

\* whereClause of getUserReports: the caller's id, and the upper-cased
\* status when the query has one
userWhere(userId, query) ==
  [userId |-> userId, category |-> "", status |-> toUpperCase(query.status)]

\* whereClause of getCommunityReports: the category and the upper-cased
\* status when the query has them
communityWhere(query) ==
  [userId |-> "", category |-> query.category,
   status |-> toUpperCase(query.status)]

\* the rows a where clause selects (an empty value is an absent key)
matching(table, where) ==
  {r \in table :
     /\ where.userId = "" \/ r.userId = where.userId
     /\ where.category = "" \/ r.category = where.category
     /\ where.status = "" \/ r.status = where.status}

\* orderBy { createdAt: 'desc' }: the orders the store may return the rows
\* in; rows of one createdAt come in any order
newestFirst(rows) ==
  {s \in [1..Cardinality(rows) -> rows] :
     /\ \A i, j \in 1..Cardinality(rows) : i # j => s[i] # s[j]
     /\ \A i, j \in 1..Cardinality(rows) :
          i < j => s[i].createdAt >= s[j].createdAt}

\* skip and take of findMany on an ordered result
skipTake(s, skip, take) ==
  [i \in 1..(IF Len(s) - skip < take
               THEN (IF Len(s) - skip < 0 THEN 0 ELSE Len(s) - skip)
               ELSE take) |-> s[skip + i]]

\* Math.ceil(a / b) for a >= 0 and b >= 1
ceilDiv(a, b) == (a + b - 1) \div b

\* the pagination object of the two list responses
pagination(query, returned, totalReports) ==
  LET skip == (query.page - 1) * query.limit IN
  [currentPage |-> query.page,
   totalPages |-> ceilDiv(totalReports, query.limit),
   totalReports |-> totalReports,
   hasNextPage |-> skip + returned < totalReports,
   hasPrevPage |-> query.page > 1]

\* mutant: the community list includes the reporter's e-mail
communityItemWithEmail(r) ==
  [report |-> r,
   user |-> [id |-> r.userId, name |-> UserName(r.userId), email |-> r.userId]]

\* the include { user: { id, name } } of a community row
communityItem(r) ==
  [report |-> r, user |-> [id |-> r.userId, name |-> UserName(r.userId)]]

\* mutant: the route of the own list takes any caller who has a row, with
\* or without a token
getUserReportsFindNoToken(p, u, query, ok) ==
  /\ Arrive(p)
  /\ u \in DOMAIN users
  /\ LET req == ListRequest("getUserReports", AuthUser(u), query)
         where == userWhere(u, query)
         skip == (query.page - 1) * query.limit
     IN IF ~ok
          THEN Respond(p, ListFailure(req, 500,
                 "Internal server error while fetching reports"))
          ELSE \E s \in newestFirst(matching(reports, where)) :
                 Suspend(p, "user_count",
                   ListLocal(req, where,
                     [i \in DOMAIN skipTake(s, skip, query.limit) |->
                        ReportWithUser(skipTake(s, skip, query.limit)[i])]))
  /\ UNCHANGED <<store, verifications, outbox, issued, now, ticks>>

\* GET /api/reports by an authenticated caller: whereClause and findMany
getUserReportsFind(p, u, query, ok) ==
  /\ Arrive(p)
  /\ AuthGate(u)
  /\ LET req == ListRequest("getUserReports", AuthUser(u), query)
         where == userWhere(u, query)
         skip == (query.page - 1) * query.limit
     IN IF ~ok
          THEN Respond(p, ListFailure(req, 500,
                 "Internal server error while fetching reports"))
          ELSE \E s \in newestFirst(matching(reports, where)) :
                 Suspend(p, "user_count",
                   ListLocal(req, where,
                     [i \in DOMAIN skipTake(s, skip, query.limit) |->
                        ReportWithUser(skipTake(s, skip, query.limit)[i])]))
  /\ UNCHANGED <<store, verifications, outbox, issued, now, ticks>>

\* prisma.report.count({ where: whereClause }) and the 200 response
getUserReportsCount(p, ok) ==
  /\ pc[p] = "user_count"
  /\ LET l == local[p]
         req == ListRequest("getUserReports", [id |-> l.email, role |-> l.role],
                            l.query)
         totalReports == Cardinality(matching(reports, l.where))
     IN IF ok
          THEN Respond(p, ListResponse(req, 200,
                 [success |-> TRUE,
                  data |-> [reports |-> l.data,
                            pagination |-> pagination(l.query, Len(l.data),
                                                      totalReports)]]))
          ELSE Respond(p, ListFailure(req, 500,
                 "Internal server error while fetching reports"))
  /\ UNCHANGED <<store, verifications, outbox, issued, now, ticks, served>>

\* GET /api/reports/community by anyone: whereClause and findMany
getCommunityReportsFind(p, query, ok) ==
  /\ Arrive(p)
  /\ LET req == ListRequest("getCommunityReports", NoUser, query)
         where == communityWhere(query)
         skip == (query.page - 1) * query.limit
     IN IF ~ok
          THEN Respond(p, ListFailure(req, 500,
                 "Internal server error while fetching community reports"))
          ELSE \E s \in newestFirst(matching(reports, where)) :
                 Suspend(p, "community_count",
                   ListLocal(req, where,
                     [i \in DOMAIN skipTake(s, skip, query.limit) |->
                        communityItem(skipTake(s, skip, query.limit)[i])]))
  /\ UNCHANGED <<store, verifications, outbox, issued, now, ticks>>

\* prisma.report.count({ where: whereClause }) and the 200 response
getCommunityReportsCount(p, ok) ==
  /\ pc[p] = "community_count"
  /\ LET l == local[p]
         req == ListRequest("getCommunityReports", NoUser, l.query)
         totalReports == Cardinality(matching(reports, l.where))
     IN IF ok
          THEN Respond(p, ListResponse(req, 200,
                 [success |-> TRUE,
                  data |-> [reports |-> l.data,
                            pagination |-> pagination(l.query, Len(l.data),
                                                      totalReports)]]))
          ELSE Respond(p, ListFailure(req, 500,
                 "Internal server error while fetching community reports"))
  /\ UNCHANGED <<store, verifications, outbox, issued, now, ticks, served>>

(* ------------------------------ start-up ------------------------------- *)

\* the database the server starts on: empty, or holding the row signup created
\* at time 0 for one account whose mail the transporter refused (the code went
\* out in the 201 body) and which has logged in since (its token circulates)
SeedUsers ==
  { <<>>,
    "a@x" :> NewUser("a@x", GoodPassword, generateOTP(0), otpExpiryAt(0)) }

\* a database in use: two such accounts, each of which submitted one report
\* before start-up (20 and 10 minutes before) and holds its award; the operator has given the second
\* one the role ADMIN
ReportSeedUsers ==
  ("a@x" :> [NewUser("a@x", GoodPassword, generateOTP(0), otpExpiryAt(0))
               EXCEPT !.points = pointsToAward])
    @@ ("b@x" :> [NewUser("b@x", GoodPassword, generateOTP(0), otpExpiryAt(0))
                    EXCEPT !.points = pointsToAward, !.role = "ADMIN"])

ReportSeedReports ==
  { NewReport(1, ValidReport, "a@x", 0 - 1200000),
    NewReport(2, ValidReport, "b@x", 0 - 600000) }

\* everything but the tables, at start-up
Idle ==
  /\ issued = {users[e].id : e \in DOMAIN users}
  /\ nextReportId = Cardinality(reports) + 1
  /\ persisted = [e \in Emails |-> Cardinality({r \in reports : r.userId = e})]
  /\ awards = persisted
  /\ verifications = [e \in Emails |-> 0]
  /\ outbox = NoMail
  /\ now = 0
  /\ ticks = 0
  /\ served = 0
  /\ pc = [p \in Procs |-> "idle"]
  /\ local = [p \in Procs |-> NoLocal]
  /\ resp = NoResp

Init ==
  /\ users \in SeedUsers
  /\ reports = {}
  /\ Idle

ReportInit ==
  /\ users = ReportSeedUsers
  /\ reports = ReportSeedReports
  /\ Idle

(* -------------------------------- clock -------------------------------- *)

\* time passes
Tick(d) ==
  /\ ticks < MaxTicks
  /\ now' = now + d
  /\ ticks' = ticks + 1
  /\ UNCHANGED <<store, verifications, outbox, issued, served, pc, local, resp>>

(* ---------------------------- specification ---------------------------- *)

\* the account endpoints and report submission
Handlers ==
  \/ \E p \in Procs, e \in Emails, pw \in SignupPasswords, ok \in BOOLEAN :
       signupFind(p, e, pw, ok)
  \/ \E p \in Procs, k \in RandSamples, ok \in BOOLEAN, delivered \in BOOLEAN :
       signupCreate(p, k, ok, delivered)
  \/ \E p \in Procs, e \in Emails, pw \in Passwords, ok \in BOOLEAN :
       login(p, e, pw, ok)
  \/ \E p \in Procs, e \in Emails, c \in RequestCodes, ok \in BOOLEAN :
       verifyFind(p, e, c, ok)
  \/ \E p \in Procs, ok \in BOOLEAN : verifyUpdate(p, ok)
  \/ \E p \in Procs, e \in Emails, ok \in BOOLEAN : resendFind(p, e, ok)
  \/ \E p \in Procs, k \in RandSamples, ok \in BOOLEAN, delivered \in BOOLEAN :
       resendUpdate(p, k, ok, delivered)
  \/ \E p \in Procs, u \in Emails, body \in ReportBodies, ok \in BOOLEAN :
       submitCreate(p, u, body, ok)
  \/ \E p \in Procs, ok \in BOOLEAN : submitAward(p, ok)

\* the endpoints on one report and the two lists
ReportHandlers ==
  \/ \E p \in Procs, u \in Emails, id \in ReportIds, ok \in BOOLEAN :
       getReportById(p, u, id, ok)
  \/ \E p \in Procs, u \in Emails, id \in ReportIds, patch \in Patches,
          ok \in BOOLEAN :
       updateFind(p, u, id, patch, ok)
  \/ \E p \in Procs, ok \in BOOLEAN : updateWrite(p, ok)
  \/ \E p \in Procs, u \in Emails, id \in ReportIds, ok \in BOOLEAN :
       deleteFind(p, u, id, ok)
  \/ \E p \in Procs, ok \in BOOLEAN : deleteWrite(p, ok)
  \/ \E p \in Procs, u \in Emails, query \in Queries, ok \in BOOLEAN :
       getUserReportsFind(p, u, query, ok)
  \/ \E p \in Procs, ok \in BOOLEAN : getUserReportsCount(p, ok)
  \/ \E p \in Procs, query \in Queries, ok \in BOOLEAN :
       getCommunityReportsFind(p, query, ok)
  \/ \E p \in Procs, ok \in BOOLEAN : getCommunityReportsCount(p, ok)

Next ==
  \/ Handlers
  \/ \E d \in TickSteps : Tick(d)

\* the account endpoints and report submission, from a fresh database, as
\* time passes
Spec == Init /\ [][Next]_vars

AllNext ==
  \/ Handlers
  \/ ReportHandlers

\* every endpoint, from a fresh database or one in use, within one reading
\* of the clock
AllSpec == (Init \/ ReportInit) /\ [][AllNext]_vars

\* every value of Math.random()
AllRandSamples == 0..(RandDen - 1)

OtpNext ==
  \/ \E ok \in BOOLEAN : signupFind(1, "a@x", GoodPassword, ok)
  \/ \E k \in AllRandSamples, ok \in BOOLEAN, delivered \in BOOLEAN :
       signupCreate(1, k, ok, delivered)

\* signup for one e-mail, one request at a time, with every value the random
\* source can return
OtpSpec == Init /\ [][OtpNext]_vars

ControllerNext ==
  \/ \E p \in Procs, u \in Emails, body \in UnscreenedBodies, ok \in BOOLEAN :
       submitUnscreened(p, u, body, ok)
  \/ \E p \in Procs, ok \in BOOLEAN : submitAward(p, ok)

\* the controller submitReport on its own, behind the gate and without the
\* validators
ControllerSpec == (Init \/ ReportInit) /\ [][ControllerNext]_vars

(* ------------------------------- claims -------------------------------- *)

\* C1: in every reachable state each user's otp and otpExpiry are both set
\* or both null, and a user with isEmailVerified = true has otp = null.
C1_OtpFieldsConsistent ==
  \A e \in DOMAIN users :
    /\ (users[e].otp = NullOtp) <=> (users[e].otpExpiry = NullDate)
    /\ users[e].isEmailVerified => users[e].otp = NullOtp

\* C2: a verify-OTP request that carries the stored code no later than
\* otpExpiry for an unverified user is not rejected, and the update of a
\* request that passed the checks sets isEmailVerified and clears otp and
\* otpExpiry in one step; a verify-OTP request that arrives for a verified
\* user is answered "Email is already verified", whatever code it carries
\* (a request the store fails is answered 500).
C2_VerifyConsumesOtp ==
  [][/\ (/\ served' = served + 1
         /\ pc' = pc
         /\ resp'.op = "verifyOTP"
         /\ resp'.status # 500
         /\ resp'.email \in DOMAIN users) =>
          /\ users[resp'.email].isEmailVerified =>
               /\ resp'.status = 400
               /\ resp'.body = [success |-> FALSE,
                                message |-> "Email is already verified"]
          /\ ~users[resp'.email].isEmailVerified =>
               ~(/\ users[resp'.email].otp = resp'.otp
                 /\ users[resp'.email].otpExpiry # NullDate
                 /\ now <= users[resp'.email].otpExpiry)
     /\ \A p \in Procs :
          /\ (pc[p] = "idle" /\ pc'[p] = "verify_update") =>
               ~users[local'[p].email].isEmailVerified
          /\ (pc[p] = "verify_update" /\ pc'[p] = "idle" /\ resp'.status # 500) =>
               /\ resp'.status = 200
               /\ users'[local[p].email].isEmailVerified
               /\ users'[local[p].email].otp = NullOtp
               /\ users'[local[p].email].otpExpiry = NullDate
    ]_vars

\* C2 witness: after a successful verification, a second verify-OTP request
\* with a code that was never issued has been answered "already verified".
C2_Witness ==
  /\ resp.op = "verifyOTP"
  /\ resp.status = 400
  /\ resp.body.message = "Email is already verified"
  /\ resp.otp = <<0, 0, 0, 0, 0, 0>>
  /\ verifications[resp.email] = 1
  /\ users[resp.email].otp = NullOtp
  /\ users[resp.email].otpExpiry = NullDate

\* C3: for one user at most one verify-OTP request succeeds, however the
\* reads and writes of concurrent requests interleave.
C3_AtMostOneVerifySucceeds ==
  \A e \in Emails : verifications[e] <= 1

\* C4: when a resend-OTP request has succeeded on an unverified user, a
\* verify-OTP request with the code it replaced fails with "Invalid OTP", and
\* one with the new code passes up to 10 minutes later, for every pair of
\* codes the generator can produce.
C4_ResendInvalidatesOldCode ==
  [][\A p \in Procs :
       (/\ pc[p] = "resend_update"
        /\ pc'[p] = "idle"
        /\ resp'.status = 200
        /\ ~users'[local[p].email].isEmailVerified) =>
         LET e == local[p].email
             old == Request("verifyOTP", e, "", users[e].otp)
             new == Request("verifyOTP", e, "", users'[e].otp)
         IN /\ users[e].otp # NullOtp =>
                 verifyChecks(users', now', old) = Failure(old, 400, "Invalid OTP")
            /\ \A d \in {0, OtpTtlMs} :
                 verifyChecks(users', now' + d, new).status = 0
    ]_vars

\* C5: a verify-OTP request that arrives later than otpExpiry for an
\* unverified user with a stored code fails with "OTP has expired", whether
\* or not its code equals the stored one, and changes no user (a request the
\* store fails is answered 500).
C5_ExpiredOtpRejected ==
  [][/\ (/\ served' = served + 1
         /\ pc' = pc
         /\ resp'.op = "verifyOTP"
         /\ resp'.status # 500
         /\ resp'.email \in DOMAIN users
         /\ ~users[resp'.email].isEmailVerified
         /\ users[resp'.email].otp # NullOtp
         /\ users[resp'.email].otpExpiry # NullDate
         /\ now > users[resp'.email].otpExpiry) =>
          /\ resp'.status = 400
          /\ resp'.body = [success |-> FALSE,
                           message |-> "OTP has expired. Please request a new one."]
          /\ users' = users
     /\ \A p \in Procs :
          (pc[p] = "idle" /\ pc'[p] = "verify_update") =>
            now <= users[local'[p].email].otpExpiry
    ]_vars

\* C5 witness: the stored code itself was submitted after its expiry and
\* rejected as expired; the user is still unverified.
C5_Witness ==
  /\ resp.op = "verifyOTP"
  /\ resp.body.message = "OTP has expired. Please request a new one."
  /\ resp.email \in DOMAIN users
  /\ resp.otp = users[resp.email].otp
  /\ now > users[resp.email].otpExpiry
  /\ ~users[resp.email].isEmailVerified

\* C6: a signup answers 201 only in the step that inserts the user, and
\* every inserted user has isEmailVerified = false, an otp of exactly 6
\* decimal digits, and otpExpiry exactly 10 minutes after the insertion.
C6_FreshAccount ==
  [][/\ \A p \in Procs :
          (pc[p] = "signup_create" /\ pc'[p] = "idle" /\ resp'.status = 201) =>
            (local[p].email \notin DOMAIN users /\ local[p].email \in DOMAIN users')
     /\ \A e \in Emails :
          (e \notin DOMAIN users /\ e \in DOMAIN users') =>
            /\ users'[e].isEmailVerified = FALSE
            /\ users'[e].otp # NullOtp
            /\ Len(users'[e].otp) = 6
            /\ \A i \in 1..Len(users'[e].otp) : users'[e].otp[i] \in 0..9
            /\ users'[e].otpExpiry = now + 600000
    ]_vars

\* C6 witness: a signup made 10 minutes after start-up has just been
\* answered 201 and its user expires 20 minutes after start-up.
C6_Witness ==
  /\ resp.op = "signup"
  /\ resp.status = 201
  /\ now = 600000
  /\ users[resp.email].otpExpiry = 1200000
  /\ Len(users[resp.email].otp) = 6
  /\ ~users[resp.email].isEmailVerified

\* C7: a signup that arrives for an e-mail that has a user is answered
\* "User with this email already exists", changes no user (none created,
\* none altered) and sends no mail (a request the store fails is answered
\* 500).
C7_DuplicateSignup ==
  [][/\ (/\ served' = served + 1
         /\ pc' = pc
         /\ resp'.op = "signup"
         /\ resp'.status # 500
         /\ resp'.email \in DOMAIN users) =>
          /\ resp'.status = 400
          /\ resp'.body = [success |-> FALSE,
                           message |-> "User with this email already exists"]
          /\ users' = users
          /\ outbox' = outbox
     /\ \A p \in Procs :
          (pc[p] = "idle" /\ pc'[p] = "signup_create") =>
            local'[p].email \notin DOMAIN users
    ]_vars

\* C7 witness: a second signup for an existing e-mail was rejected as a
\* duplicate while the first account still waits for its code.
C7_Witness ==
  /\ resp.op = "signup"
  /\ resp.status = 400
  /\ resp.email \in DOMAIN users
  /\ users[resp.email].otp # NullOtp
  /\ \A p \in Procs : pc[p] = "idle"

\* C8: a login for an e-mail without a user and a login with the wrong
\* password for an existing user get the same status and the same body, and
\* neither is issued a token.
C8_LoginFailuresIdentical ==
  [][(/\ served' = served + 1
      /\ resp'.op = "login"
      /\ resp'.status # 500
      /\ \/ resp'.email \notin DOMAIN users
         \/ ~bcryptCompare(resp'.password, users[resp'.email].password)) =>
       /\ resp'.status = 401
       /\ resp'.body = [success |-> FALSE, message |-> "Invalid email or password"]
       /\ issued' = issued
    ]_vars

\* C8 witness: the only request so far, a login with the wrong password for
\* the e-mail of an existing user, was answered 401.
C8_Witness ==
  /\ served = 1
  /\ \A p \in Procs : pc[p] = "idle"
  /\ resp.op = "login"
  /\ resp.status = 401
  /\ resp.password = BadPassword
  /\ resp.email \in DOMAIN users

\* C9: a submission inserts exactly one report, owned by the caller, and
\* changes no user; its award adds exactly 10 to the caller's points and
\* changes neither another user's points nor the reports.
C9_SubmitAwardsOwner ==
  [][\A p \in Procs :
       /\ (pc[p] = "idle" /\ pc'[p] = "submit_award") =>
            /\ users' = users
            /\ \E r \in reports' :
                 /\ r \notin reports
                 /\ reports' = reports \cup {r}
                 /\ r.userId = local'[p].email
       /\ (pc[p] = "submit_award" /\ pc'[p] = "idle" /\ resp'.status = 201) =>
            /\ reports' = reports
            /\ DOMAIN users' = DOMAIN users
            /\ \A e \in DOMAIN users :
                 users'[e].points =
                   IF e = local[p].email THEN users[e].points + 10
                                         ELSE users[e].points
    ]_vars

\* C9 witness: a submission has been answered 201, its owner has 10 points
\* and one report, and another user exists with 0 points.
C9_Witness ==
  /\ resp.op = "submitReport"
  /\ resp.status = 201
  /\ users[resp.email].points = 10
  /\ \E r \in reports : r.userId = resp.email
  /\ \E e \in DOMAIN users : e # resp.email /\ users[e].points = 0

\* C10: whenever no submission of a user is between its report insertion
\* and its award, the user's points are 10 times the number of reports that
\* submissions have inserted for that user.
C10_PointsMatchReports ==
  \A e \in DOMAIN users :
    (\A p \in Procs : ~(pc[p] = "submit_award" /\ local[p].email = e)) =>
      users[e].points = 10 * persisted[e]

\* C11: however the steps of concurrent submissions by one user interleave
\* (with each other and with every other endpoint), each award that succeeds
\* raises that user's points by exactly 10 while the other submission is
\* still in flight, and the points always equal 10 times the number of
\* submissions of that user answered 201: no award is lost.
C11_NoLostAward ==
  [][/\ \A e \in DOMAIN users' : users'[e].points = 10 * awards'[e]
     /\ \A p, q \in Procs :
          (/\ p # q
           /\ pc[p] = "submit_award" /\ pc[q] = "submit_award"
           /\ local[p].email = local[q].email
           /\ pc'[p] = "idle" /\ resp'.status = 201) =>
            /\ users'[local[p].email].points = users[local[p].email].points + 10
            /\ awards'[local[p].email] = awards[local[p].email] + 1
            /\ pc'[q] = "submit_award"
    ]_vars

\* C11 witness: two submissions by one user were in flight together; one has
\* been answered 201 and the other still waits for its award, and the user
\* holds 10 points for each submission answered so far.
C11_Witness ==
  /\ pc[1] = "idle" /\ pc[2] = "submit_award"
  /\ served = 2
  /\ resp.op = "submitReport" /\ resp.status = 201
  /\ resp.email = local[2].email
  /\ persisted[resp.email] = awards[resp.email] + 1
  /\ users[resp.email].points = 10 * awards[resp.email]
  /\ awards[resp.email] >= 1

\* the routes on one report
ReportOps == {"getReportById", "updateReport", "deleteReport"}

\* C12: a get, update or delete that arrives for an existing report from a
\* caller who is neither its owner nor ADMIN is answered 403 and changes
\* nothing; from an ADMIN who is not the owner it is not refused: the get is
\* answered 200 with the report, the update and the delete go on to their
\* write, which is reached by owners and ADMINs only and is answered 200
\* (a request the store fails is answered 500).
C12_OwnerOrAdmin ==
  [][/\ (/\ served' = served + 1
         /\ pc' = pc
         /\ resp'.op \in ReportOps
         /\ resp'.status # 500
         /\ \E r \in reports : r.id = resp'.id) =>
          LET r == CHOOSE r \in reports : r.id = resp'.id
              caller == users[resp'.email]
          IN /\ (r.userId # caller.id /\ caller.role # "ADMIN") =>
                  /\ resp'.status = 403
                  /\ resp'.body.success = FALSE
                  /\ reports' = reports
                  /\ users' = users
             /\ (r.userId # caller.id /\ caller.role = "ADMIN") =>
                  /\ resp'.op = "getReportById"
                  /\ resp'.status = 200
                  /\ resp'.body.data.report = r
     /\ \A p \in Procs :
          /\ (pc[p] = "idle" /\ pc'[p] \in {"update_write", "delete_write"}) =>
               \E r \in reports :
                 /\ r.id = local'[p].id
                 /\ \/ r.userId = local'[p].email
                    \/ users[local'[p].email].role = "ADMIN"
          /\ (pc[p] \in {"update_write", "delete_write"} /\ pc'[p] = "idle"
                /\ resp'.status # 500) =>
               /\ resp'.status = 200
               /\ resp'.body.success = TRUE
    ]_vars

\* C12 witness: a caller with role USER has just been refused (403) the
\* deletion of a report of another user, and a report of a USER carries a
\* status that only the update of an ADMIN who is not its owner has set.
C12_Witness ==
  /\ resp.op = "deleteReport"
  /\ resp.status = 403
  /\ users[resp.email].role = "USER"
  /\ \E r \in reports : r.id = resp.id /\ r.userId # resp.email
  /\ \E r \in reports :
       /\ r.status = "RESOLVED"
       /\ users[r.userId].role = "USER"

\* C13: a submission whose latitude is outside [-90, 90], whose longitude is
\* outside [-180, 180], whose category is not one of the four, or whose
\* description is shorter than 10 or longer than 1000 characters is answered
\* 400 "Validation failed" at its arrival, whether or not the store works:
\* no report is created, no id is used and no user changes.  (The steps
\* looked at are the arrivals of submissions: those that answer at once and
\* those that go on to the award.)
C13_InvalidSubmitRejected ==
  [][(/\ served' = served + 1
      /\ \/ pc' = pc /\ resp'.op = "submitReport"
         \/ \E p \in Procs : pc[p] = "idle" /\ pc'[p] = "submit_award") =>
     \A p \in Procs :
       \/ /\ resp'.status = 400
          /\ resp'.body.success = FALSE
          /\ resp'.body.message = "Validation failed"
          /\ pc'[p] = "idle"
          /\ reports' = reports
          /\ nextReportId' = nextReportId
          /\ users' = users
       \/ \A u \in Emails, body \in ReportBodies, ok \in BOOLEAN :
            ~(/\ \/ body.latitude < -90 \/ body.latitude > 90
                 \/ body.longitude < -180 \/ body.longitude > 180
                 \/ body.category \notin
                      {"illegal-cutting", "waste-dumping", "pollution", "other"}
                 \/ body.description < 10 \/ body.description > 1000
              /\ submitCreate(p, u, body, ok))
    ]_vars

\* C13 witness: the first request to a database in use, a submission with
\* a latitude beyond 90 and nothing else wrong, was answered 400 and the
\* tables are as they were.
C13_Witness ==
  /\ served = 1
  /\ resp.op = "submitReport"
  /\ resp.status = 400
  /\ resp.body.errors = {"location.latitude"}
  /\ reports = ReportSeedReports
  /\ users = ReportSeedUsers

\* C14: no response to a signup or to a resend-OTP carries the code, whether
\* or not the mail was delivered.  (Neither handler reads the environment,
\* so every behaviour of the server is also one of a production deployment.)
C14_NoOtpInResponse ==
  resp.op \in {"signup", "resendOTP"} => "developmentOTP" \notin DOMAIN resp.body

\* C15: when the store write of a signup or of a resend-OTP succeeded and the
\* mail was not delivered, the user holds the new code, the request is
\* answered with success (201 or 200), and the body carries the delivery
\* flag emailSent = false.
C15_DeliveryFailureIsSoft ==
  [][\A p \in Procs, k \in RandSamples :
       (/\ pc[p] \in {"signup_create", "resend_update"}
        /\ signupCreate(p, k, TRUE, FALSE) \/ resendUpdate(p, k, TRUE, FALSE)
        /\ resp'.status # 500) =>
         /\ local[p].email \in DOMAIN users'
         /\ users'[local[p].email].otp = generateOTP(k)
         /\ users'[local[p].email].otpExpiry = now + OtpTtlMs
         /\ resp'.status \in {200, 201}
         /\ resp'.body.success = TRUE
         /\ "emailSent" \in DOMAIN resp'.body
         /\ resp'.body.emailSent = FALSE
    ]_vars

\* C16: a report enters the table with status PENDING; the status of a
\* report changes only in the write of an update whose caller has role
\* ADMIN; the write of an update by a caller without that role leaves the
\* status of every report as it was, whatever status its body carried.
C16_StatusByAdminOnly ==
  [][/\ \A n \in reports' :
          (\A r \in reports : r.id # n.id) => n.status = "PENDING"
     /\ \A r \in reports, n \in reports' :
          (r.id = n.id /\ r.status # n.status) =>
            \E p \in Procs :
              /\ pc[p] = "update_write" /\ pc'[p] = "idle"
              /\ local[p].id = r.id
              /\ users[local[p].email].role = "ADMIN"
     /\ \A p \in Procs :
          (/\ pc[p] = "update_write" /\ pc'[p] = "idle"
           /\ users[local[p].email].role # "ADMIN") =>
            \A r \in reports, n \in reports' : r.id = n.id => r.status = n.status
    ]_vars

\* C16 witness: the update of its own report by a caller with role USER,
\* carrying a description and a status, was answered 200; the description
\* is the new one and the status is still PENDING.
C16_Witness ==
  /\ resp.op = "updateReport"
  /\ resp.status = 200
  /\ users[resp.email].role = "USER"
  /\ resp.patch.status = "resolved"
  /\ \E r \in reports :
       /\ r.id = resp.id
       /\ r.userId = resp.email
       /\ r.description = resp.patch.description
       /\ r.status = "PENDING"

\* C17: in every reachable state every report has one of the four
\* categories and a description of 10 to 1000 characters.
C17_ReportsValid ==
  \A r \in reports :
    /\ r.category \in {"illegal-cutting", "waste-dumping", "pollution", "other"}
    /\ r.description >= 10
    /\ r.description <= 1000

\* C18: no step changes the userId of a report: a report that is in the
\* table before and after a step has the same owner.
C18_OwnerImmutable ==
  [][\A r \in reports, n \in reports' : r.id = n.id => n.userId = r.userId]_vars

\* C18 witness: an ADMIN has updated the description and the status of a
\* report of another user (200), and the report still belongs to that user.
C18_Witness ==
  /\ resp.op = "updateReport"
  /\ resp.status = 200
  /\ users[resp.email].role = "ADMIN"
  /\ \E r \in reports :
       /\ r.id = resp.id
       /\ r.userId # resp.email
       /\ r.description = resp.patch.description
       /\ r.status = "RESOLVED"

\* C19: no step of any endpoint removes a user or lowers a user's points.
C19_PointsNeverDecrease ==
  [][\A e \in DOMAIN users :
       /\ e \in DOMAIN users'
       /\ users'[e].points >= users[e].points]_vars

\* C19 witness: a user who earned points with a report has deleted it (200):
\* no report of the user is left and the points are still there.
C19_Witness ==
  /\ resp.op = "deleteReport"
  /\ resp.status = 200
  /\ \A r \in reports : r.userId # resp.email
  /\ persisted[resp.email] >= 1
  /\ users[resp.email].points = 10 * persisted[resp.email]

\* C20: a verify-OTP request that the store serves is answered by the first
\* of these that applies, in this order: 404 "User not found" when no user
\* has the e-mail; "Email is already verified"; "No OTP found" when otp is
\* null; "OTP has expired" when the time is past otpExpiry; "Invalid OTP"
\* when the codes differ.  It goes on to its update only when none applies.
C20_VerifyCheckOrder ==
  [][/\ (/\ served' = served + 1
         /\ pc' = pc
         /\ resp'.op = "verifyOTP"
         /\ resp'.status # 500) =>
          LET e == resp'.email
              said(status, message) ==
                /\ resp'.status = status
                /\ resp'.body = [success |-> FALSE, message |-> message]
          IN IF e \notin DOMAIN users
               THEN said(404, "User not found")
             ELSE IF users[e].isEmailVerified
               THEN said(400, "Email is already verified")
             ELSE IF users[e].otp = NullOtp
               THEN said(400, "No OTP found. Please request a new one.")
             ELSE IF now > users[e].otpExpiry
               THEN said(400, "OTP has expired. Please request a new one.")
             ELSE /\ users[e].otp # resp'.otp
                  /\ said(400, "Invalid OTP")
     /\ \A p \in Procs :
          (pc[p] = "idle" /\ pc'[p] = "verify_update") =>
            /\ local'[p].email \in DOMAIN users
            /\ ~users[local'[p].email].isEmailVerified
            /\ users[local'[p].email].otp # NullOtp
            /\ now <= users[local'[p].email].otpExpiry
            /\ users[local'[p].email].otp = local'[p].otp
    ]_vars

\* C20 witness: a request with a code that is not the stored one arrived
\* after the expiry of the stored one and was told that the code has
\* expired, not that it is invalid.
C20_Witness ==
  /\ resp.op = "verifyOTP"
  /\ resp.body.message = "OTP has expired. Please request a new one."
  /\ resp.email \in DOMAIN users
  /\ users[resp.email].otp # NullOtp
  /\ resp.otp # users[resp.email].otp
  /\ now > users[resp.email].otpExpiry

\* an unverified user whose stored code is past its expiry
OtpExpiredFor(table, t, e) ==
  /\ e \in DOMAIN table
  /\ ~table[e].isEmailVerified
  /\ table[e].otp # NullOtp
  /\ t > table[e].otpExpiry

C22_ResendRefusals ==
  [][/\ (/\ served' = served + 1
         /\ pc' = pc
         /\ resp'.op = "resendOTP") =>
          LET e == resp'.email IN
          /\ e \notin DOMAIN users =>
               \/ resp'.status = 500
               \/ resp'.status = 404 /\ resp'.body.message = "User not found"
          /\ (e \in DOMAIN users /\ users[e].isEmailVerified) =>
               \/ resp'.status = 500
               \/ resp'.status = 400 /\ resp'.body.message = "Email is already verified"
          /\ resp'.status \in {404, 400} =>
               \/ e \notin DOMAIN users
               \/ users[e].isEmailVerified
          /\ users' = users
          /\ outbox' = outbox
     /\ \A p \in Procs :
          (pc[p] = "idle" /\ pc'[p] = "resend_update") =>
            /\ local'[p].email \in DOMAIN users
            /\ ~users[local'[p].email].isEmailVerified
    ]_vars

\* C22 witness: a resend-OTP for a verified user was answered 400 and the
\* user holds no code.
C22_Witness ==
  /\ resp.op = "resendOTP"
  /\ resp.status = 400
  /\ resp.body.message = "Email is already verified"
  /\ resp.email \in DOMAIN users
  /\ users[resp.email].isEmailVerified
  /\ users[resp.email].otp = NullOtp

\* C23: a login whose e-mail has a user and whose password matches the
\* stored hash is answered 200 (or 500 when the store fails), verified or
\* not; the 200 carries a token with the user's id, which is issued by the
\* step, and is given to matching credentials only.
C23_LoginIgnoresVerification ==
  [][(/\ served' = served + 1
      /\ pc' = pc
      /\ resp'.op = "login") =>
       LET e == resp'.email
           credentialsMatch == /\ e \in DOMAIN users
                               /\ bcryptCompare(resp'.password, users[e].password)
       IN
       /\ credentialsMatch => resp'.status \in {200, 500}
       /\ resp'.status = 200 =>
            /\ credentialsMatch
            /\ resp'.body.token = users[e].id
            /\ users[e].id \in issued'
            /\ resp'.body.user.isEmailVerified = users[e].isEmailVerified
    ]_vars

\* C23 witness: a login of a user who is not verified was answered 200 with
\* a token of the user's id.
C23_Witness ==
  /\ resp.op = "login"
  /\ resp.status = 200
  /\ resp.email \in DOMAIN users
  /\ ~users[resp.email].isEmailVerified
  /\ resp.body.token = users[resp.email].id
  /\ resp.body.token \in issued

\* the columns of a user row that no response may carry
SecretColumns == {"password", "otp", "otpExpiry"}

\* C28: the user record in the body of a successful signup (201), login
\* (200) or verify-OTP (200) has none of the columns password, otp and
\* otpExpiry.
C28_UserRecordSanitized ==
  (resp.op \in {"signup", "login", "verifyOTP"} /\ resp.status \in {200, 201}) =>
    /\ "user" \in DOMAIN resp.body
    /\ DOMAIN resp.body.user \cap SecretColumns = {}

\* C28 witness: a verify-OTP was answered 200 with a user record of the
\* columns id, email and isEmailVerified, while the row still has a password.
C28_Witness ==
  /\ resp.op = "verifyOTP"
  /\ resp.status = 200
  /\ DOMAIN resp.body.user = {"id", "email", "isEmailVerified"}
  /\ resp.body.user.isEmailVerified
  /\ "password" \in DOMAIN users[resp.email]

\* the routes that mount authenticateToken, and the awaits their handlers
\* suspend at
GatedOps ==
  {"submitReport", "getUserReports", "getReportById", "updateReport",
   "deleteReport"}
GatedAwaits == {"submit_award", "user_count", "update_write", "delete_write"}

\* C24: a request to submit, to list one's own reports, to get, to update
\* or to delete a report reaches its handler (is answered by it, or suspends
\* in it) only when its caller holds a token this server issued and still
\* has a row; a request for the community list reaches its handler whenever
\* a request can arrive at all, whoever holds a token.
C24_GatedRoutes ==
  /\ [][served' = served + 1 =>
          /\ (pc' = pc /\ resp'.op \in GatedOps) =>
               /\ resp'.email \in issued
               /\ resp'.email \in DOMAIN users
          /\ \A p \in Procs :
               (pc[p] = "idle" /\ pc'[p] \in GatedAwaits) =>
                 /\ local'[p].email \in issued
                 /\ local'[p].email \in DOMAIN users
       ]_vars
  /\ [](\A p \in Procs, query \in Queries :
          (pc[p] = "idle" /\ served < MaxRequests) =>
            ENABLED getCommunityReportsFind(p, query, TRUE))

\* C24 witness: the community list was answered 200 to a caller without an
\* identity while a request for the own list of a token holder is suspended
\* in its handler.
C24_Witness ==
  /\ resp.op = "getCommunityReports"
  /\ resp.status = 200
  /\ resp.email = ""
  /\ \E p \in Procs :
       /\ pc[p] = "user_count"
       /\ local[p].email \in issued

\* the reports a community query selects, whoever owns them
CommunitySelection(table, query) ==
  {r \in table :
     /\ query.category = "" \/ r.category = query.category
     /\ query.status = "" \/ r.status = toUpperCase(query.status)}

\* the number of rows of a page: what is left of total after the pages before
PageLength(query, total) ==
  LET left == total - (query.page - 1) * query.limit IN
  IF left < 0 THEN 0 ELSE IF left < query.limit THEN left ELSE query.limit

\* C25: the rows the community list reads are distinct reports of the
\* selection by category and status alone, of any owner, as many as the page
\* holds, each with a user object of the columns id and name that carries
\* the registered name of the report's owner and no email; the 200 response
\* returns these rows as read.
C25_CommunityNameOnly ==
  [][\A p \in Procs :
       /\ (pc[p] = "idle" /\ pc'[p] = "community_count") =>
            LET rows == local'[p].data
                query == local'[p].query
                selection == CommunitySelection(reports, query)
            IN /\ \A i \in DOMAIN rows :
                    /\ rows[i].report \in selection
                    /\ DOMAIN rows[i].user = {"id", "name"}
                    /\ rows[i].user.name = UserName(rows[i].report.userId)
               /\ \A i, j \in DOMAIN rows : i # j => rows[i].report # rows[j].report
               /\ Len(rows) = PageLength(query, Cardinality(selection))
       /\ (pc[p] = "community_count" /\ pc'[p] = "idle" /\ resp'.status = 200) =>
            /\ resp'.op = "getCommunityReports"
            /\ resp'.body.data.reports = local[p].data
    ]_vars

\* C25 witness: a community list answered 200 holds reports of two owners,
\* each with the owner's name and without an email.
C25_Witness ==
  /\ resp.op = "getCommunityReports"
  /\ resp.status = 200
  /\ Len(resp.body.data.reports) = 2
  /\ resp.body.data.reports[1].report.userId # resp.body.data.reports[2].report.userId
  /\ \A i \in 1..2 :
       /\ resp.body.data.reports[i].user.name =
            UserName(resp.body.data.reports[i].report.userId)
       /\ "email" \notin DOMAIN resp.body.data.reports[i].user

\* C27: the rows the own list of caller u reads are distinct reports with
\* userId = u (and the status of the query, when it has one), as many as the
\* page holds, no row older than the row before it; the 200 response
\* returns these rows as read.
C27_OwnListOnlyOwn ==
  [][\A p \in Procs :
       /\ (pc[p] = "idle" /\ pc'[p] = "user_count") =>
            LET rows == local'[p].data
                query == local'[p].query
                u == local'[p].email
                selection == {r \in reports :
                                /\ r.userId = u
                                /\ query.status = ""
                                     \/ r.status = toUpperCase(query.status)}
            IN /\ \A i \in DOMAIN rows : rows[i].report \in selection
               /\ \A i, j \in DOMAIN rows :
                    /\ i # j => rows[i].report # rows[j].report
                    /\ i < j => rows[i].report.createdAt >= rows[j].report.createdAt
               /\ Len(rows) = PageLength(query, Cardinality(selection))
       /\ (pc[p] = "user_count" /\ pc'[p] = "idle" /\ resp'.status = 200) =>
            /\ resp'.op = "getUserReports"
            /\ resp'.email = local[p].email
            /\ resp'.body.data.reports = local[p].data
    ]_vars

\* C27 witness: an own list answered 200 holds two reports of the caller,
\* the newer one first, while the table has a report of another user.
C27_Witness ==
  /\ resp.op = "getUserReports"
  /\ resp.status = 200
  /\ Len(resp.body.data.reports) = 2
  /\ \A i \in 1..2 : resp.body.data.reports[i].report.userId = resp.email
  /\ resp.body.data.reports[1].report.createdAt >
       resp.body.data.reports[2].report.createdAt
  /\ \E r \in reports : r.userId # resp.email

\* the reports a list request selects: the caller's for the own list, by
\* category for the community list, by status for both
ListSelection(table, op, u, query) ==
  {r \in table :
     /\ op = "getUserReports" => r.userId = u
     /\ (op = "getCommunityReports" /\ query.category # "") =>
          r.category = query.category
     /\ query.status = "" \/ r.status = toUpperCase(query.status)}

\* C26: a list answered 200 over a store with T selected reports returns
\* the reports at positions (page-1)*limit+1 .. min(page*limit, T) of a
\* newest-first order of them, with totalReports = T, totalPages =
\* ceil(T / limit), hasNextPage exactly when page*limit < T and hasPrevPage
\* exactly when page > 1.
C26_PageOfNewestFirst ==
  [][\A p \in Procs :
       (/\ pc[p] \in {"user_count", "community_count"}
        /\ pc'[p] = "idle"
        /\ resp'.status = 200) =>
         LET query == resp'.query
             rows == resp'.body.data.reports
             meta == resp'.body.data.pagination
             selection == ListSelection(reports, resp'.op, resp'.email, query)
             T == Cardinality(selection)
         IN /\ meta.totalReports = T
            /\ meta.totalPages * query.limit >= T
            /\ (meta.totalPages - 1) * query.limit < T \/ (T = 0 /\ meta.totalPages = 0)
            /\ meta.currentPage = query.page
            /\ meta.hasNextPage <=> (query.page * query.limit < T)
            /\ meta.hasPrevPage <=> (query.page > 1)
            /\ Len(rows) = PageLength(query, T)
            /\ \A i \in DOMAIN rows :
                 /\ rows[i].report \in selection
                 /\ Cardinality({r \in selection :
                                   r.createdAt > rows[i].report.createdAt})
                      <= (query.page - 1) * query.limit + i - 1
                 /\ Cardinality({r \in selection :
                                   r.createdAt >= rows[i].report.createdAt})
                      >= (query.page - 1) * query.limit + i
    ]_vars

\* the columns of a report no update may touch
FrameColumns ==
  {"id", "latitude", "longitude", "address", "photo", "userId", "createdAt"}

\* C30: the write of an update that is answered 200 leaves every other
\* report as it is and, in the report it names, leaves id, location, photo,
\* userId and createdAt as they are, replaces description and category by
\* the value in the body when the body has one and leaves them otherwise,
\* replaces status by the upper-cased value in the body when the body has
\* one and the caller is ADMIN and leaves it otherwise, and sets updatedAt
\* to the time of the request.
C30_UpdateFrame ==
  [][\A p \in Procs :
       (pc[p] = "update_write" /\ pc'[p] = "idle" /\ resp'.status = 200) =>
         LET l == local[p] IN
         \E r \in reports, n \in reports' :
           /\ r.id = l.id
           /\ n.id = l.id
           /\ reports' \ {n} = reports \ {r}
           /\ \A f \in FrameColumns : n[f] = r[f]
           /\ n.description = IF l.patch.description # 0
                                THEN l.patch.description ELSE r.description
           /\ n.category = IF l.patch.category # ""
                             THEN l.patch.category ELSE r.category
           /\ n.status = IF l.patch.status # "" /\ l.role = "ADMIN"
                           THEN toUpperCase(l.patch.status) ELSE r.status
           /\ n.updatedAt = now
    ]_vars

\* C30 witness: an update with an empty body was answered 200; the report
\* has its old description, category and status and its updatedAt is later
\* than its createdAt.
C30_Witness ==
  /\ resp.op = "updateReport"
  /\ resp.status = 200
  /\ resp.patch = NoPatch
  /\ \E r \in reports :
       /\ r.id = resp.id
       /\ r.updatedAt = now
       /\ r.updatedAt > r.createdAt
       /\ r.description = ValidReport.description
       /\ r.category = ValidReport.category
       /\ r.status = "PENDING"

\* the message of the catch block of each handler
GenericMessage(op) ==
  CASE op \in {"signup", "login", "verifyOTP", "resendOTP"} ->
         "Internal server error"
    [] op = "submitReport" -> "Internal server error while submitting report"
    [] op = "getUserReports" -> "Internal server error while fetching reports"
    [] op = "getCommunityReports" ->
         "Internal server error while fetching community reports"
    [] op = "getReportById" -> "Internal server error while fetching report"
    [] op = "updateReport" -> "Internal server error while updating report"
    [] op = "deleteReport" -> "Internal server error while deleting report"
    [] OTHER -> ""

\* the step is one in which a store call of the handler in slot p throws:
\* the first call of a request that arrives (a submission reaches the store
\* when its body passes the validators), or the call a handler is suspended
\* at
StoreCallThrows(p) ==
  \/ /\ pc[p] = "idle"
     /\ pc' = pc
     /\ served' = served + 1
     /\ \/ resp'.op = "signup" /\ signupFind(p, resp'.email, resp'.password, FALSE)
        \/ resp'.op = "login" /\ login(p, resp'.email, resp'.password, FALSE)
        \/ resp'.op = "verifyOTP" /\ verifyFind(p, resp'.email, resp'.otp, FALSE)
        \/ resp'.op = "resendOTP" /\ resendFind(p, resp'.email, FALSE)
        \/ /\ resp'.op = "submitReport"
           /\ \E body \in ReportBodies :
                /\ reportValidation(body) = {}
                /\ submitCreate(p, resp'.email, body, FALSE)
        \/ /\ resp'.op = "getReportById"
           /\ getReportById(p, resp'.email, resp'.id, FALSE)
        \/ /\ resp'.op = "updateReport"
           /\ updateFind(p, resp'.email, resp'.id, resp'.patch, FALSE)
        \/ /\ resp'.op = "deleteReport"
           /\ deleteFind(p, resp'.email, resp'.id, FALSE)
        \/ /\ resp'.op = "getUserReports"
           /\ getUserReportsFind(p, resp'.email, resp'.query, FALSE)
        \/ /\ resp'.op = "getCommunityReports"
           /\ getCommunityReportsFind(p, resp'.query, FALSE)
  \/ /\ pc[p] = "signup_create"
     /\ \E k \in RandSamples, delivered \in BOOLEAN :
          signupCreate(p, k, FALSE, delivered)
  \/ pc[p] = "verify_update" /\ verifyUpdate(p, FALSE)
  \/ /\ pc[p] = "resend_update"
     /\ \E k \in RandSamples, delivered \in BOOLEAN :
          resendUpdate(p, k, FALSE, delivered)
  \/ pc[p] = "submit_award" /\ submitAward(p, FALSE)
  \/ pc[p] = "update_write" /\ updateWrite(p, FALSE)
  \/ pc[p] = "delete_write" /\ deleteWrite(p, FALSE)
  \/ pc[p] = "user_count" /\ getUserReportsCount(p, FALSE)
  \/ pc[p] = "community_count" /\ getCommunityReportsCount(p, FALSE)

\* C29: a step in which a store call of a handler throws answers the
\* request with status 500, and every answer with status 500 has the body
\* { success: false, message } with the fixed message of its handler and
\* nothing else.
C29_StoreFailureIsGeneric500 ==
  [][/\ \A p \in Procs : StoreCallThrows(p) => resp'.status = 500
     /\ (resp' # resp /\ resp'.status = 500) =>
          resp'.body = [success |-> FALSE, message |-> GenericMessage(resp'.op)]
    ]_vars

\* C29 witness: a verify-OTP that carried the stored code of an unverified
\* user was answered 500 with the fixed message; the user is still
\* unverified and holds the code.
C29_Witness ==
  /\ resp.op = "verifyOTP"
  /\ resp.status = 500
  /\ resp.body = [success |-> FALSE, message |-> "Internal server error"]
  /\ resp.email \in DOMAIN users
  /\ ~users[resp.email].isEmailVerified
  /\ users[resp.email].otp = resp.otp

\* C32: every code a signup stores, whatever Math.random() returned, is a string of exactly 6 decimal digits that does not start
\* with 0 and whose value is in 100000..999999.
C32_OtpSixDigits ==
  \A e \in DOMAIN users :
    users[e].otp # NullOtp =>
      /\ Len(users[e].otp) = 6
      /\ \A i \in 1..Len(users[e].otp) : users[e].otp[i] \in 0..9
      /\ digitsValue(users[e].otp) >= 100000
      /\ digitsValue(users[e].otp) <= 999999

\* C32 witness: a stored code has the value 100000 + floor(900000 *
\* (RandDen - 1) / RandDen), the one of the largest value of Math.random().
C32_Witness ==
  \E e \in DOMAIN users :
    /\ users[e].otp # NullOtp
    /\ digitsValue(users[e].otp) = 100000 + (((RandDen - 1) * 900000) \div RandDen)
    /\ outbox.otp = users[e].otp

\* the ids of the reports in a table
IdsOf(table) == {r.id : r \in table}

\* the ids the table has given out and holds no more
DeletedIds == (1..(nextReportId - 1)) \ IdsOf(reports)

\* C31: the write of a delete that is answered 200 removes the report it
\* names and no other.  From then on the id is in the table no more: a
\* request to get, update or delete it that arrives is answered 404 'Report
\* not found' (500 when the lookup fails) and none goes on to a write, and no
\* list that reads the table from then on holds a row with the id.
C31_DeletedIsGone ==
  [][/\ \A p \in Procs :
          (pc[p] = "delete_write" /\ pc'[p] = "idle" /\ resp'.status = 200) =>
            /\ local[p].id \in IdsOf(reports)
            /\ IdsOf(reports') = IdsOf(reports) \ {local[p].id}
     /\ DeletedIds \subseteq DeletedIds'
     /\ (/\ served' = served + 1
         /\ pc' = pc
         /\ resp'.op \in {"getReportById", "updateReport", "deleteReport"}
         /\ resp'.id \in DeletedIds) =>
          \/ resp'.status = 500
          \/ resp'.status = 404 /\ resp'.body.message = "Report not found"
     /\ \A p \in Procs :
          /\ (pc[p] = "idle" /\ pc'[p] \in {"update_write", "delete_write"}) =>
               local'[p].id \notin DeletedIds
          /\ (pc[p] = "idle" /\ pc'[p] \in {"user_count", "community_count"}) =>
               \A i \in DOMAIN local'[p].data :
                 local'[p].data[i].report.id \notin DeletedIds
    ]_vars

\* C31 witness: a request to get a report by an id the table gave out and a
\* delete removed was answered 404.
C31_Witness ==
  /\ resp.op = "getReportById"
  /\ resp.status = 404
  /\ resp.body.message = "Report not found"
  /\ resp.id \in DeletedIds

\* C33: however a resend-OTP and a verify-OTP for one user interleave, the
\* update of the resend-OTP writes no code onto a user who is verified by
\* then, and no user is ever verified with a non-null otp or otpExpiry.
C33_ResendSparesVerified ==
  [][/\ \A p \in Procs :
          (/\ pc[p] = "resend_update"
           /\ pc'[p] = "idle"
           /\ users[local[p].email].isEmailVerified) =>
            /\ users'[local[p].email].otp = NullOtp
            /\ users'[local[p].email].otpExpiry = NullDate
     /\ \A e \in DOMAIN users' :
          users'[e].isEmailVerified =>
            /\ users'[e].otp = NullOtp
            /\ users'[e].otpExpiry = NullDate
    ]_vars

\* C34: when two signups for one e-mail have both passed the existence
\* check, the create of the one that runs second, which finds the e-mail
\* taken, adds no user and is answered 400 'User with this email already
\* exists'.
C34_ConcurrentSignupDuplicate ==
  [][\A p \in Procs :
       (/\ pc[p] = "signup_create"
        /\ pc'[p] = "idle"
        /\ local[p].email \in DOMAIN users) =>
         /\ users' = users
         /\ resp'.status = 400
         /\ resp'.body = [success |-> FALSE,
                          message |-> "User with this email already exists"]
    ]_vars

C36_FailedVerifyChangesNothing ==
  [][(/\ served' = served + 1
      /\ resp'.op = "verifyOTP"
      /\ pc' = pc
      /\ resp'.status \in {400, 404}) =>
       /\ users' = users
       /\ issued' = issued
       /\ verifications' = verifications
       /\ resp'.body.message = "Invalid OTP" =>
            LET e == resp'.email
                right == Request("verifyOTP", e, "", users'[e].otp)
            IN /\ resp'.otp # users'[e].otp
               /\ users'[e].otp # NullOtp
               /\ \A t \in {now', users'[e].otpExpiry} :
                    verifyChecks(users', t, right).status = 0
    ]_vars

\* C36 witness: a verify-OTP with a wrong code was answered 'Invalid OTP';
\* the user is unverified and holds a code that has not expired.
C36_Witness ==
  /\ resp.op = "verifyOTP"
  /\ resp.status = 400
  /\ resp.body.message = "Invalid OTP"
  /\ ~users[resp.email].isEmailVerified
  /\ users[resp.email].otp # NullOtp
  /\ users[resp.email].otp # resp.otp
  /\ now <= users[resp.email].otpExpiry

\* C37: no step removes a user or sets isEmailVerified back to false; a
\* step sets it to true only as the update of a verify-OTP answered 200; and
\* a verify-OTP goes on to its update only when, on the row it read and at
\* the time it read it, the user was unverified, the code of the request
\* equalled the stored otp and the time was not past the stored otpExpiry.
C37_VerifiedAbsorbing ==
  [][/\ \A e \in DOMAIN users :
          /\ e \in DOMAIN users'
          /\ users[e].isEmailVerified => users'[e].isEmailVerified
     /\ \A e \in DOMAIN users' :
          (users'[e].isEmailVerified
             /\ (e \notin DOMAIN users \/ ~users[e].isEmailVerified)) =>
            \E p \in Procs :
              /\ pc[p] = "verify_update"
              /\ pc'[p] = "idle"
              /\ local[p].email = e
              /\ resp'.op = "verifyOTP"
              /\ resp'.status = 200
     /\ \A p \in Procs :
          (pc[p] = "idle" /\ pc'[p] = "verify_update") =>
            LET e == local'[p].email IN
            /\ e \in DOMAIN users
            /\ ~users[e].isEmailVerified
            /\ users[e].otp # NullOtp
            /\ local'[p].otp = users[e].otp
            /\ now <= users[e].otpExpiry
    ]_vars

\* C37 witness: a user is verified and holds a code: a resend-OTP wrote it
\* after the verification, and the user is still verified.
C37_Witness ==
  \E e \in DOMAIN users :
    /\ users[e].isEmailVerified
    /\ verifications[e] = 1
    /\ users[e].otp # NullOtp
    /\ resp.op = "resendOTP"
    /\ resp.status = 200

\* a step in which a handler sends its response
Responded ==
  \/ served' # served /\ pc' = pc
  \/ \E p \in Procs : pc[p] # "idle" /\ pc'[p] = "idle"

\* C38: a response carries a token only when it is the 200 of a login whose
\* password matched the stored hash or the 200 of a verify-OTP whose update
\* verified the user, and the token is the id of the user of that request;
\* jwt.sign produces a token in no other step; the responses of signup and
\* resend-OTP and every response other than a 200 carry no token.
C38_TokenOnlyOnLoginOrVerify ==
  [][/\ (Responded /\ "token" \in DOMAIN resp'.body) =>
          LET e == resp'.email IN
          /\ resp'.status = 200
          /\ e \in DOMAIN users
          /\ resp'.body.token = users[e].id
          /\ resp'.body.token \in issued'
          /\ \/ /\ resp'.op = "login"
                /\ served' = served + 1
                /\ bcryptCompare(resp'.password, users[e].password)
             \/ /\ resp'.op = "verifyOTP"
                /\ \E p \in Procs : pc[p] = "verify_update" /\ local[p].email = e
                /\ users'[e].isEmailVerified
                /\ verifications'[e] = verifications[e] + 1
     /\ issued' # issued =>
          /\ Responded
          /\ "token" \in DOMAIN resp'.body
          /\ issued' = issued \cup {resp'.body.token}
     /\ (Responded /\ (resp'.op \in {"signup", "resendOTP"} \/ resp'.status # 200)) =>
          /\ "token" \notin DOMAIN resp'.body
          /\ issued' = issued
    ]_vars

\* C38 witness: a verify-OTP has been answered 200 with the token of the
\* user it verified, after a signup answered without one.
C38_Witness ==
  /\ resp.op = "verifyOTP"
  /\ resp.status = 200
  /\ resp.email \in DOMAIN users
  /\ resp.body.token = users[resp.email].id
  /\ issued = {users[resp.email].id}
  /\ verifications[resp.email] = 1

\* C39: the step of a signup or a resend-OTP that writes the code either
\* fails (500), and then the store and the last accepted mail are as before,
\* or has written a code with its expiry to the row of the e-mail of the
\* request, and then the mail handed to the transporter is addressed to that
\* e-mail with that code: when the transporter took it, it is the last
\* accepted mail, and when it did not, the last accepted mail is as before
\* and the body shows that code as developmentOTP. The last accepted mail
\* changes in no other step.
C39_MailAfterWrite ==
  [][/\ \A p \in Procs :
          (pc[p] \in {"signup_create", "resend_update"} /\ pc'[p] = "idle") =>
            LET e == local[p].email IN
            IF resp'.status = 500
              THEN /\ users' = users
                   /\ outbox' = outbox
              ELSE /\ resp'.status \in {200, 201}
                   /\ e \in DOMAIN users'
                   /\ users'[e].otp # NullOtp
                   /\ users'[e].otpExpiry = otpExpiryAt(now)
                   /\ IF "developmentOTP" \in DOMAIN resp'.body
                        THEN /\ resp'.body.developmentOTP = users'[e].otp
                             /\ outbox' = outbox
                        ELSE outbox' = [to |-> e, otp |-> users'[e].otp]
     /\ outbox' # outbox =>
          \E p \in Procs :
            /\ pc[p] \in {"signup_create", "resend_update"}
            /\ pc'[p] = "idle"
            /\ resp'.status \in {200, 201}
    ]_vars

\* C39 witness: the update of a resend-OTP has failed, and the last accepted
\* mail is still the one of the signup, with the code the row holds.
C39_Witness ==
  /\ resp.op = "resendOTP"
  /\ resp.status = 500
  /\ served = 2
  /\ outbox # NoMail
  /\ outbox.to = resp.email
  /\ resp.email \in DOMAIN users
  /\ outbox.otp = users[resp.email].otp
  /\ \A p \in Procs : pc[p] = "idle"

\* C40: a step in which a get-by-id, an update or a delete answers 404 or
\* 403 leaves the reports, the id counter, the users (their points among
\* the columns) and the awards as they were; the answer is 404 'Report not
\* found' exactly when the table holds no report with the id, whoever the
\* caller, and 403 only for a report that is there, is another user's and
\* is asked for by a caller who is not ADMIN.
C40_NotFoundBeforeForbidden ==
  [][(/\ Responded
      /\ resp'.op \in {"getReportById", "updateReport", "deleteReport"}
      /\ resp'.status \in {403, 404}) =>
       /\ reports' = reports
       /\ nextReportId' = nextReportId
       /\ users' = users
       /\ \A e \in DOMAIN users : users'[e].points = users[e].points
       /\ awards' = awards
       /\ served' = served + 1
       /\ IF resp'.id \notin IdsOf(reports)
            THEN /\ resp'.status = 404
                 /\ resp'.body.message = "Report not found"
            ELSE /\ resp'.status = 403
                 /\ resp'.role # "ADMIN"
                 /\ \A r \in findReport(reports, resp'.id) : r.userId # resp'.email
    ]_vars

\* C40 witness: a caller who is not ADMIN has asked to delete the report of
\* another user that is in the table no more, and was answered 404.
C40_Witness ==
  /\ resp.op = "deleteReport"
  /\ resp.status = 404
  /\ resp.role = "USER"
  /\ resp.email = "a@x"
  /\ resp.id = 2
  /\ resp.id \in DeletedIds
  /\ \A r \in reports : r.id = 1 /\ r.userId = "a@x"
  /\ reports # {}

====
